---- MODULE Spec2Model ----
(***************************************************************************)
(* Model of JAFD::SmoothDriving (SmoothDriving.cpp / SmoothDriving.h):     *)
(* the maneuver slot (_taskCopies / _currentTask), the setNewTask swap     *)
(* protocol, the per-maneuver startTask / updateSpeeds control laws and    *)
(* the periodic tick entry point updateSpeeds(freq).                       *)
(*                                                                         *)
(* Numbers.  A C++ float is modelled as a fixed-point number: the integer  *)
(* n stands for n / FP, and every float operation rounds toward zero to    *)
(* that resolution.  int16_t values are plain integers.  Angles are counted *)
(* in quarter turns, so that cosf / sinf are exact.                        *)
(***************************************************************************)
EXTENDS Integers, Sequences, FiniteSets, TLC

\* ------------------------------------------------------------------------
\* Bounds of the model
\* ------------------------------------------------------------------------

\* positions reported by the sensor fusion are (k, 0), k in 0..MaxPos (whole units)
MaxPos == 1
\* the accumulated integral of a PID controller saturates at +-MaxIntegral (1/FP units)
MaxIntegral == 1
\* largest end speed of a candidate startTask is applied to on its own
MaxFnSpeed == 2
\* largest angle of a Rotate, in quarter turns
MaxAngle == 2
\* largest magnitude of a computed wheel command the low-speed correction is applied to on its own
MaxCmd == 3

\* ------------------------------------------------------------------------
\* Number representation
\* ------------------------------------------------------------------------

\* resolution of the fixed-point stand-in for float
FP == 16

Abs(x) == IF x < 0 THEN -x ELSE x

\* sgn of Math.h: -1, 0 or 1
sgn(x) == IF x > 0 THEN 1 ELSE IF x < 0 THEN -1 ELSE 0

\* C division, rounding toward zero (b # 0)
TruncDiv(a, b) == sgn(a) * sgn(b) * (Abs(a) \div Abs(b))

FMul(a, b) == TruncDiv(a * b, FP)
FDiv(a, b) == TruncDiv(a * FP, b)

\* static_cast<float>(int16_t) and static_cast<int16_t>(float)
ToFloat(i) == i * FP
ToInt16(f) == TruncDiv(f, FP)

RECURSIVE SqrtSearch(_, _, _)
SqrtSearch(n, lo, hi) ==
    IF lo >= hi THEN lo
    ELSE LET mid == (lo + hi + 1) \div 2
         IN IF mid * mid <= n THEN SqrtSearch(n, mid, hi) ELSE SqrtSearch(n, lo, mid - 1)

\* floor of the square root of a natural number
ISqrt(n) == SqrtSearch(n, 0, n)

\* sqrtf on the fixed-point representation
FSqrt(a) == ISqrt(a * FP)

\* Vec2f::length()
Length(v) == ISqrt(v[1] * v[1] + v[2] * v[2])

\* cosf / sinf of an angle given in quarter turns
cosf(h) == CASE h % 4 = 0 -> 1 [] h % 4 = 1 -> 0 [] h % 4 = 2 -> -1 [] OTHER -> 0
sinf(h) == CASE h % 4 = 0 -> 0 [] h % 4 = 1 -> 1 [] h % 4 = 2 -> 0 [] OTHER -> -1

\* ------------------------------------------------------------------------
\* Settings (JAFDSettings.h)
\* ------------------------------------------------------------------------

\* JAFDSettings::MotorControl::minSpeed
minSpeed == 2
\* JAFDSettings::Controller::PurePursuit::lookAheadGain  (0.5)
lookAheadGain == 8
\* JAFDSettings::Controller::PurePursuit::minLookAheadDist  (0.5)
minLookAheadDist == 8
\* JAFDSettings::Controller::PurePursuit::maxCurvature  (1.0)
maxCurvature == 16
\* JAFDSettings::Mechanics::wheelDistance  (2.0)
wheelDistance == 32
\* gains of forwardVelPidSettings / angularVelPidSettings  (kp 0.5, ki 0.5, kd 0)
pidKp == 8
pidKi == 8
pidKd == 0

\* ------------------------------------------------------------------------
\* Data
\* ------------------------------------------------------------------------

\* RobotState (AllDatatypes.h) with the members SmoothDriving.cpp reads
MkRobotState(fv, pos, rot) ==
    [wheelSpeeds |-> [left |-> fv, right |-> fv], forwardVel |-> fv,
     position |-> pos, angularVel |-> 0, rotation |-> rot]

\* constexpr RobotState()
ZeroRobotState == MkRobotState(0, <<0, 0>>, 0)

Headings == {0}

\* snapshots SensorFusion::getRobotState() may return
\* wheel / end speeds candidates are built with (whole units)
Speeds == {-1, 0, 1}

\* forward velocities: the whole speeds, and one half between 0 and 1
ForwardVels == { ToFloat(v) : v \in Speeds } \cup { FP \div 2 }

RobotStates ==
    { MkRobotState(fv, <<ToFloat(x), 0>>, h) :
        fv \in ForwardVels, x \in 0..MaxPos, h \in Headings }

\* start poses the explicit-pose overloads are called with
ExplicitStates == { MkRobotState(fv, <<0, 0>>, 0) : fv \in {-(FP \div 2), ToFloat(1)} }

Distances == { ToFloat(d) : d \in (-MaxPos)..MaxPos }
Freqs == {1, 2}

\* a task object: ITask members, then the members of the variant in use
MkTask(type, endSpeeds, distance) ==
    [type |-> type, finished |-> FALSE, endState |-> ZeroRobotState,
     endSpeeds |-> endSpeeds, distance |-> distance, targetDir |-> <<ToFloat(1), 0>>,
     startPos |-> <<0, 0>>, startSpeeds |-> 0, totalTime |-> 0, speeds |-> 0]

\* Accelerate::Accelerate(endSpeeds, distance)
Accelerate(endSpeeds, distance) == MkTask("Accelerate", endSpeeds, distance)
\* DriveStraight::DriveStraight(distance)
DriveStraight(distance) == [MkTask("DriveStraight", 0, distance) EXCEPT !.targetDir = <<ToFloat(1), 0>>]
C28_Stop_bornFinished == [MkTask("Stop", 0, 0) EXCEPT !.targetDir = <<0, 0>>, !.finished = TRUE]

\* Stop::Stop()
Stop == [MkTask("Stop", 0, 0) EXCEPT !.targetDir = <<0, 0>>]

\* candidates application code passes to setNewTask
Candidates ==
    { Accelerate(v, d) : v \in Speeds, d \in Distances }
        \cup { DriveStraight(d) : d \in Distances } \cup {Stop}

NoTask == [type |-> "none"]

\* PIDController state
PIDZero == [integral |-> 0, lastError |-> 0]

\* ------------------------------------------------------------------------
\* PID controller (PIDController.h)
\* ------------------------------------------------------------------------

Saturate(x) == IF x > MaxIntegral THEN MaxIntegral ELSE IF x < -MaxIntegral THEN -MaxIntegral ELSE x

\* PIDController::process(setPoint, currentValue, dt), dt = 1 / freq:
\* the new controller state and the correction
PID_process(pid, setPoint, currentValue, freq) ==
    LET error    == setPoint - currentValue
        integral == Saturate(pid.integral + TruncDiv(error, freq))
        deriv    == (error - pid.lastError) * freq
    IN [pid |-> [integral |-> integral, lastError |-> error],
        out |-> FMul(pidKp, error) + FMul(pidKi, integral) + FMul(pidKd, deriv)]

\* PIDController::reset()
PID_reset(pid) == PIDZero

\* a controller that has processed a non-finite set point: its integral and
\* last error are NaN until the next reset
PIDNonFinite == [integral |-> 0, lastError |-> 0, finite |-> FALSE]

\* ------------------------------------------------------------------------
\* startTask of the three variants: [code, task, resetPID]
\* task is the object startTask ran on, as it leaves it
\* ------------------------------------------------------------------------

VecAdd(a, b) == <<a[1] + b[1], a[2] + b[2]>>
VecSub(a, b) == <<a[1] - b[1], a[2] - b[2]>>
VecScale(a, k) == <<FMul(a[1], k), FMul(a[2], k)>>

C9_Accelerate_rejects_strict(startSpeeds, endSpeeds, distance) ==
    \/ ~(\/ (startSpeeds > 0 /\ endSpeeds > 0 /\ distance > 0)
         \/ (startSpeeds < 0 /\ endSpeeds < 0 /\ distance < 0))
    \/ endSpeeds = startSpeeds

\* the precondition of Accelerate::startTask (line 53), true when it rejects
Accelerate_rejects(startSpeeds, endSpeeds, distance) ==
    \/ ~(\/ (startSpeeds >= 0 /\ endSpeeds >= 0 /\ distance >= 0)
         \/ (startSpeeds <= 0 /\ endSpeeds <= 0 /\ distance <= 0))
    \/ endSpeeds = startSpeeds

Accelerate_startTask(t, startState) ==
    LET targetDir   == <<ToFloat(cosf(startState.rotation)), ToFloat(sinf(startState.rotation))>>
        startSpeeds == ToInt16(startState.forwardVel)
        t1 == [t EXCEPT !.finished = FALSE, !.targetDir = targetDir,
                        !.startPos = startState.position, !.startSpeeds = startSpeeds]
    IN IF Accelerate_rejects(startSpeeds, t.endSpeeds, t.distance)
       THEN [code |-> "error", task |-> t1, resetPID |-> FALSE]
       ELSE [code |-> "ok", resetPID |-> FALSE,
             task |-> [t1 EXCEPT
                !.totalTime = FDiv(2 * t.distance, ToFloat(t.endSpeeds + startSpeeds)),
                !.endState = [wheelSpeeds |-> [left |-> ToFloat(t.endSpeeds), right |-> ToFloat(t.endSpeeds)],
                              forwardVel |-> ToFloat(t.endSpeeds),
                              position |-> VecAdd(startState.position, VecScale(targetDir, t.distance)),
                              angularVel |-> 0,
                              rotation |-> startState.rotation]]]

C32_DriveStraight_rejects_moving(speeds, distance) ==
    speeds # 0 /\ sgn(speeds) # sgn(distance)

C33_DriveStraight_lookAhead_unfloored(speeds) ==
    Abs(FMul(lookAheadGain, ToFloat(speeds)))

C11_DriveStraight_rejects_product(speeds, distance) == speeds * distance < 0

\* the precondition of DriveStraight::startTask (line 170), true when it rejects
DriveStraight_rejects(speeds, distance) == sgn(speeds) # sgn(distance)

C25_DriveStraight_targetDir_unflipped(dir0, speeds) == dir0

\* lines 172-175: if (_speeds <= 0) _targetDir *= -1
DriveStraight_targetDir(dir0, speeds) ==
    IF speeds <= 0 THEN <<-dir0[1], -dir0[2]>> ELSE dir0

DriveStraight_startTask(t, startState) ==
    LET dir0   == <<ToFloat(cosf(startState.rotation)), ToFloat(sinf(startState.rotation))>>
        speeds == ToInt16(startState.forwardVel)
        t1 == [t EXCEPT !.finished = FALSE, !.targetDir = dir0,
                        !.startPos = startState.position, !.speeds = speeds]
        targetDir == DriveStraight_targetDir(dir0, speeds)
    IN IF DriveStraight_rejects(speeds, t.distance)
       THEN [code |-> "error", task |-> t1, resetPID |-> FALSE]
       ELSE [code |-> "ok", resetPID |-> FALSE,
             task |-> [t1 EXCEPT
                !.targetDir = targetDir,
                !.endState = [wheelSpeeds |-> [left |-> ToFloat(speeds), right |-> ToFloat(speeds)],
                              forwardVel |-> ToFloat(speeds),
                              position |-> VecAdd(startState.position, VecScale(targetDir, Abs(t.distance))),
                              angularVel |-> 0,
                              rotation |-> startState.rotation]]]

C6_Stop_startTask_finished(t, startState) ==
    [code |-> "ok", resetPID |-> TRUE,
     task |-> [t EXCEPT
        !.finished = TRUE,
        !.endState = [wheelSpeeds |-> [left |-> 0, right |-> 0],
                      forwardVel |-> 0,
                      position |-> startState.position,
                      angularVel |-> 0,
                      rotation |-> startState.rotation]]]

Stop_startTask(t, startState) ==
    [code |-> "ok", resetPID |-> TRUE,
     task |-> [t EXCEPT
        !.finished = FALSE,
        !.endState = [wheelSpeeds |-> [left |-> 0, right |-> 0],
                      forwardVel |-> 0,
                      position |-> startState.position,
                      angularVel |-> 0,
                      rotation |-> startState.rotation]]]

\* Rotate::Rotate(maxAngularVel, angle): angle in quarter turns, like rotation;
\* _startAngle and _totalTime are set by startTask
Rotate(maxAngularVel, angle) ==
    [type |-> "Rotate", finished |-> FALSE, endState |-> ZeroRobotState,
     maxAngularVel |-> maxAngularVel, angle |-> angle, startAngle |-> 0,
     totalTime |-> [finite |-> TRUE, value |-> 0]]

C13_Rotate_tooSlow_both(wheelSpeeds) ==
    Abs(wheelSpeeds.left) < ToFloat(minSpeed) /\ Abs(wheelSpeeds.right) < ToFloat(minSpeed)

\* line 290: a start wheel speed below the minimum
Rotate_tooSlow(wheelSpeeds) ==
    Abs(wheelSpeeds.left) < ToFloat(minSpeed) \/ Abs(wheelSpeeds.right) < ToFloat(minSpeed)

\* line 292: _totalTime = _angle / _maxAngularVel, float by int16_t; a zero
\* divisor gives an infinity of the sign of angle (value 1 / -1), or NaN (value 0)
Rotate_totalTime(angle, maxAngularVel) ==
    IF maxAngularVel = 0
    THEN [finite |-> FALSE, value |-> sgn(angle)]
    ELSE [finite |-> TRUE, value |-> FDiv(ToFloat(angle), ToFloat(maxAngularVel))]

\* Rotate::startTask
Rotate_startTask(t, startState) ==
    LET t1 == [t EXCEPT !.finished = FALSE, !.startAngle = startState.rotation]
        totalTime == Rotate_totalTime(t.angle, t.maxAngularVel)
        t2 == [t1 EXCEPT !.totalTime = totalTime]
    IN IF Rotate_tooSlow(startState.wheelSpeeds)
       THEN [code |-> "error", task |-> t1, resetPID |-> FALSE]
       ELSE IF totalTime.value < 0
       THEN [code |-> "error", task |-> t2, resetPID |-> FALSE]
       ELSE [code |-> "ok", resetPID |-> TRUE,
             task |-> [t2 EXCEPT
                !.endState = [wheelSpeeds |-> [left |-> 0, right |-> 0],
                              forwardVel |-> 0,
                              position |-> startState.position,
                              angularVel |-> 0,
                              rotation |-> startState.rotation + t.angle]]]

\* ------------------------------------------------------------------------
\* updateSpeeds of the three variants: [task, fwd, ang, out]
\*   st   the snapshot SensorFusion::getRobotState() returns during the tick
\*   ub   the int16_t a conversion of a non-finite float produces
\* ------------------------------------------------------------------------

\* values static_cast<int16_t>(NaN) can produce
UBInt16 == {-32768, 0}

WheelSpeeds(l, r) == [left |-> l, right |-> r]

\* goal point in robot coordinates (lines 132-133 / 228-229)
GoalPointRobot(goalPointGlobal, currentPosition, currentHeading) ==
    LET d == VecSub(goalPointGlobal, currentPosition)
    IN << d[1] * cosf(currentHeading) + d[2] * sinf(currentHeading),
         -d[1] * sinf(currentHeading) + d[2] * cosf(currentHeading) >>

\* the division of lines 136 / 232 is 0 / 0 exactly for the goal point (0, 0)
CurvatureUndefined(g) == g[1] * g[1] + g[2] * g[2] = 0

\* desCurvature before clamping: 2 y / (x^2 + y^2)
RawCurvature(g) == TruncDiv(2 * g[2] * FP * FP, g[1] * g[1] + g[2] * g[2])

\* lines 138-139 / 234-235
ClampCurvature(c) ==
    IF c > maxCurvature THEN maxCurvature
    ELSE IF c < -maxCurvature THEN -maxCurvature ELSE c

\* x * 0.8f
Times08(x) == TruncDiv(x * 4, 5)

\* lines 151-152 / 247-248: one wheel
CorrectLowSpeed(v, distance) ==
    IF v < minSpeed /\ v > -minSpeed THEN minSpeed * sgn(distance) ELSE v

\* lines 136-139 / 232-235: desCurvature as line 141 / 237 reads it; NaN
\* compares false with both limits and passes the clamp as it is
desCurvature(g) ==
    IF CurvatureUndefined(g)
    THEN [nan |-> TRUE, value |-> 0]
    ELSE [nan |-> FALSE, value |-> ClampCurvature(RawCurvature(g))]

\* lines 141-154 / 237-250: wheel speeds from the desired speed and curvature
DifferentialOutput(speed, g, correctedForwardVel, distance, ub) ==
    IF desCurvature(g).nan
    THEN WheelSpeeds(CorrectLowSpeed(ub, distance), CorrectLowSpeed(ub, distance))
    ELSE LET desAngularVel == FMul(speed, desCurvature(g).value)
             half == TruncDiv(FMul(wheelDistance, desAngularVel), 2)
         IN WheelSpeeds(CorrectLowSpeed(ToInt16(correctedForwardVel - half), distance),
                        CorrectLowSpeed(ToInt16(correctedForwardVel + half), distance))

\* lines 111-115: the speed the profile asks for at the signed driven distance
Accelerate_desiredSpeed(t, drivenDistance) ==
    LET v0 == ToFloat(t.startSpeeds)
        dv == ToFloat(t.endSpeeds - t.startSpeeds)
        radiant == FMul(v0, v0) + FDiv(FMul(2 * drivenDistance, dv), t.totalTime)
        calculatedTime ==
            Abs(FDiv(FMul(t.totalTime, v0 - FSqrt(Abs(radiant)) * sgn(t.startSpeeds + t.endSpeeds)),
                     ToFloat(t.startSpeeds - t.endSpeeds)))
    IN v0 + FMul(FDiv(calculatedTime, t.totalTime), dv)

\* lines 125-127
Accelerate_lookAhead(desiredSpeed) ==
    LET l == FMul(lookAheadGain, desiredSpeed)
    IN IF l < minLookAheadDist /\ l > -minLookAheadDist
       THEN minLookAheadDist * sgn(desiredSpeed) ELSE l

C29_There_beyond(drivenDistance, distance) == drivenDistance > Abs(distance)

C10_There_signed(drivenDistance, distance) == drivenDistance >= distance

C12_There_anywhere(drivenDistance, distance) == drivenDistance >= 0

\* "Check if I am there" (lines 93 / 212 / 321)
There(drivenDistance, distance) == drivenDistance >= Abs(distance)

C7_Finished_tracksDistance(was, there) == there

\* if (there) _finished = true;  (lines 93-95 / 212-215): the flag after the check
Finished(was, there) == was \/ there

\* lines 106-120: desiredSpeed, on the ticks that get there
Accelerate_desiredSpeedAt(t, st) ==
    LET absDriven == Length(VecSub(st.position, t.startPos))
        finished  == Finished(t.finished, There(absDriven, t.distance))
        drivenDistance == absDriven * sgn(t.distance)
    IN IF ~finished THEN Accelerate_desiredSpeed(t, drivenDistance)
       ELSE ToFloat(t.endSpeeds)

\* lines 106-133: the goal point in robot coordinates, on the ticks that get there
Accelerate_goalPointRobot(t, st) ==
    LET absDriven == Length(VecSub(st.position, t.startPos))
        drivenDistance == absDriven * sgn(t.distance)
        desiredSpeed == Accelerate_desiredSpeedAt(t, st)
        lookAheadDistance == Accelerate_lookAhead(desiredSpeed)
        goalPointGlobal == VecAdd(t.startPos, VecScale(t.targetDir, drivenDistance + lookAheadDistance))
    IN GoalPointRobot(goalPointGlobal, st.position, st.rotation)

\* the divisors of lines 112-115: _totalTime and _startSpeeds - _endSpeeds;
\* with one of them zero the profile yields no finite speed
Accelerate_profileUndefined(t) == t.totalTime = 0 \/ t.startSpeeds = t.endSpeeds

Accelerate_updateSpeeds(t, fwd, ang, st, freq, ub) ==
    LET absDriven == Length(VecSub(st.position, t.startPos))
        there     == There(absDriven, t.distance)
        finished  == Finished(t.finished, there)
        t1        == [t EXCEPT !.finished = finished]
    IN IF there /\ t.endSpeeds = 0
       THEN [task |-> t1, fwd |-> PID_reset(fwd), ang |-> PID_reset(ang), out |-> WheelSpeeds(0, 0)]
       ELSE IF ~finished /\ Accelerate_profileUndefined(t)
       THEN [task |-> t1, fwd |-> PIDNonFinite, ang |-> ang,
             out |-> WheelSpeeds(CorrectLowSpeed(ub, t.distance), CorrectLowSpeed(ub, t.distance))]
       ELSE LET desiredSpeed == Accelerate_desiredSpeedAt(t, st)
                g == Accelerate_goalPointRobot(t, st)
                p == PID_process(fwd, desiredSpeed, st.forwardVel, freq)
            IN [task |-> t1, fwd |-> p.pid, ang |-> ang,
                out |-> DifferentialOutput(desiredSpeed, g, Times08(desiredSpeed) + p.out, t.distance, ub)]

\* lines 220-223
DriveStraight_lookAhead(speeds) ==
    LET l == Abs(FMul(lookAheadGain, ToFloat(speeds)))
    IN IF l < minLookAheadDist THEN minLookAheadDist ELSE l

\* lines 208-225: the goal point on the path, in world coordinates
DriveStraight_goalPointGlobal(t, st) ==
    LET absDrivenDist == Length(VecSub(st.position, t.startPos))
        lookAheadDistance == DriveStraight_lookAhead(t.speeds)
    IN VecAdd(t.startPos, VecScale(t.targetDir, absDrivenDist + lookAheadDistance))

\* lines 208-229: the goal point in robot coordinates
DriveStraight_goalPointRobot(t, st) ==
    GoalPointRobot(DriveStraight_goalPointGlobal(t, st), st.position, st.rotation)

DriveStraight_updateSpeeds(t, fwd, ang, st, freq, ub) ==
    LET absDrivenDist == Length(VecSub(st.position, t.startPos))
        t1 == [t EXCEPT !.finished = Finished(t.finished, There(Abs(absDrivenDist), t.distance))]
        g == DriveStraight_goalPointRobot(t, st)
        p == PID_process(fwd, ToFloat(t.speeds), st.forwardVel, freq)
    IN [task |-> t1, fwd |-> p.pid, ang |-> ang,
        out |-> DifferentialOutput(ToFloat(t.speeds), g, Times08(ToFloat(t.speeds)) + p.out, t.distance, ub)]

C23_Rotate_there_oneWay(rotatedAngle, angle) == rotatedAngle >= Abs(angle)

\* line 321: abs(rotatedAngle) >= abs(_angle)
Rotate_there(rotatedAngle, angle) == There(Abs(rotatedAngle), angle)

\* lines 335 / 342 (the two branches compute the same expression):
\* sqrtf(4.0f * rotatedAngle * _maxAngularVel / _totalTime) * sgn(_maxAngularVel);
\* not finite for a negative radicand or a zero _totalTime
Rotate_desAngularVel(t, rotatedAngle) ==
    LET num == 4 * ToFloat(rotatedAngle) * t.maxAngularVel
    IN IF ~t.totalTime.finite
       THEN [finite |-> t.totalTime.value # 0, value |-> 0]
       ELSE IF t.totalTime.value = 0 \/ FDiv(num, t.totalTime.value) < 0
       THEN [finite |-> FALSE, value |-> 0]
       ELSE [finite |-> TRUE,
             value |-> FSqrt(FDiv(num, t.totalTime.value)) * sgn(t.maxAngularVel)]

\* lines 352-356: "Correct speed if it is too low"
Rotate_correctLowSpeed(out, angle) ==
    IF out.right < minSpeed /\ out.right > -minSpeed
    THEN WheelSpeeds(-(minSpeed * sgn(angle)), minSpeed * sgn(angle))
    ELSE out

\* lines 331-349: the controller after the tick and the wheel speeds before
\* the low-speed correction, on the ticks that get there
Rotate_output(t, ang, st, freq, ub) ==
    LET desAngularVel == Rotate_desAngularVel(t, st.rotation - t.startAngle)
    IN IF ~desAngularVel.finite \/ ang = PIDNonFinite
       THEN [ang |-> PIDNonFinite, out |-> WheelSpeeds(ub, ub)]
       ELSE LET p == PID_process(ang, desAngularVel.value, st.angularVel, freq)
                correctedAngularVel == Times08(desAngularVel.value) + p.out
            IN [ang |-> p.pid,
                out |-> WheelSpeeds(ToInt16(TruncDiv(FMul(-wheelDistance, correctedAngularVel), 2)),
                                    ToInt16(TruncDiv(FMul(wheelDistance, correctedAngularVel), 2)))]

\* Rotate::updateSpeeds
Rotate_updateSpeeds(t, fwd, ang, st, freq, ub) ==
    IF Rotate_there(st.rotation - t.startAngle, t.angle)
    THEN [task |-> [t EXCEPT !.finished = TRUE],
          fwd |-> PID_reset(fwd), ang |-> PID_reset(ang), out |-> WheelSpeeds(0, 0)]
    ELSE LET r == Rotate_output(t, ang, st, freq, ub)
         IN [task |-> t, fwd |-> fwd, ang |-> r.ang,
             out |-> Rotate_correctLowSpeed(r.out, t.angle)]

C8_Stop_updateSpeeds_holdsSpeed(t, fwd, ang, st, freq, ub) ==
    [task |-> [t EXCEPT !.finished = TRUE], fwd |-> fwd, ang |-> ang,
     out |-> WheelSpeeds(ToInt16(t.endState.forwardVel) + minSpeed, ToInt16(t.endState.forwardVel) + minSpeed)]

Stop_updateSpeeds(t, fwd, ang, st, freq, ub) ==
    [task |-> [t EXCEPT !.finished = TRUE], fwd |-> fwd, ang |-> ang, out |-> WheelSpeeds(0, 0)]

C30_Task_updateSpeeds_movesEndState(t, fwd, ang, st, freq, ub) ==
    [task |-> [t EXCEPT !.finished = TRUE, !.endState = st],
     fwd |-> fwd, ang |-> ang, out |-> WheelSpeeds(0, 0)]

\* virtual ITask::updateSpeeds
Task_updateSpeeds(t, fwd, ang, st, freq, ub) ==
    CASE t.type = "Accelerate"    -> Accelerate_updateSpeeds(t, fwd, ang, st, freq, ub)
      [] t.type = "DriveStraight" -> DriveStraight_updateSpeeds(t, fwd, ang, st, freq, ub)
      [] t.type = "Rotate"        -> Rotate_updateSpeeds(t, fwd, ang, st, freq, ub)
      [] OTHER                    -> Stop_updateSpeeds(t, fwd, ang, st, freq, ub)

\* virtual ITask::startTask
startTask(t, startState) ==
    CASE t.type = "Accelerate"    -> Accelerate_startTask(t, startState)
      [] t.type = "DriveStraight" -> DriveStraight_startTask(t, startState)
      [] t.type = "Rotate"        -> Rotate_startTask(t, startState)
      [] OTHER                    -> Stop_startTask(t, startState)

\* ------------------------------------------------------------------------
\* State
\* ------------------------------------------------------------------------

VARIABLES
    currentTask,     \* the object _currentTask points to, in _taskCopies
    forwardVelPID,   \* _forwardVelPID
    angularVelPID,   \* _angularVelPID
    motorSpeeds,     \* last argument of MotorControl::setSpeeds
    currentPosition, \* static currentPosition of X::updateSpeeds: where the latest tick saw the robot
    currentHeading,  \* static currentHeading of X::updateSpeeds
    irqEnabled,      \* FALSE between __disable_irq() and __enable_irq()
    pc,              \* where the application context is inside setNewTask
    forceOverride,   \* argument forceOverride as the running setNewTask read it
    newTask,         \* argument newTask of the running setNewTask
    startState,      \* the start state the running setNewTask resolved
    temp,            \* the static scratch copy `temp` of the running setNewTask
    returnCode       \* the static `returnCode` of the running setNewTask

slot == <<currentTask, forwardVelPID, angularVelPID>>
call == <<forceOverride, newTask, startState, temp, returnCode>>
tick == <<motorSpeeds, currentPosition, currentHeading>>
vars == <<currentTask, forwardVelPID, angularVelPID, motorSpeeds, currentPosition, currentHeading, irqEnabled, pc,
          forceOverride, newTask, startState, temp, returnCode>>

\* the slot while placement new is building the new object in it
PartialTask == [type |-> "partial"]

StateTypes == {"currentState", "lastEndState", "explicit"}

\* what the caller / the sensor fusion supplies as start state, per overload
StartStates(stateType) ==
    CASE stateType = "currentState" -> RobotStates
      [] stateType = "explicit"     -> ExplicitStates
      [] OTHER                      -> {ZeroRobotState}

\* start positions are kept inside the modelled area
InWorld(pos) == pos[1] >= 0 /\ pos[1] <= ToFloat(MaxPos) /\ pos[2] = 0

\* _TaskCopies() : stop(), _currentTask = &_taskCopies.stop, two fresh controllers
Init ==
    /\ currentTask = Stop
    /\ forwardVelPID = PIDZero
    /\ angularVelPID = PIDZero
    /\ motorSpeeds = WheelSpeeds(0, 0)
    /\ currentPosition = <<0, 0>>
    /\ currentHeading = 0
    /\ irqEnabled = TRUE
    /\ pc = "idle"
    /\ forceOverride = FALSE
    /\ newTask = NoTask
    /\ startState = ZeroRobotState
    /\ temp = NoTask
    /\ returnCode = "ok"

\* bool isTaskFinished()
isTaskFinished == currentTask.finished

C15_updateSpeeds_silentWhenFinished(st, freq, ub) ==
    /\ irqEnabled
    /\ IF currentTask = PartialTask
       THEN /\ motorSpeeds' = WheelSpeeds(ub, ub)
            /\ UNCHANGED <<slot, currentPosition, currentHeading>>
       ELSE LET r == Task_updateSpeeds(currentTask, forwardVelPID, angularVelPID, st, freq, ub)
            IN /\ currentTask' = r.task
               /\ forwardVelPID' = r.fwd
               /\ angularVelPID' = r.ang
               /\ motorSpeeds' = IF currentTask.finished THEN motorSpeeds ELSE r.out
               /\ currentPosition' = IF currentTask.type = "Stop" THEN currentPosition ELSE st.position
               /\ currentHeading' = IF currentTask.type = "Stop" THEN currentHeading ELSE st.rotation
    /\ UNCHANGED <<irqEnabled, pc, call>>

\* void updateSpeeds(freq): the tick, run from the timer interrupt
updateSpeeds(st, freq, ub) ==
    /\ irqEnabled
    /\ IF currentTask = PartialTask
       THEN /\ motorSpeeds' = WheelSpeeds(ub, ub)
            /\ UNCHANGED <<slot, currentPosition, currentHeading>>
       ELSE LET r == Task_updateSpeeds(currentTask, forwardVelPID, angularVelPID, st, freq, ub)
            IN /\ currentTask' = r.task
               /\ forwardVelPID' = r.fwd
               /\ angularVelPID' = r.ang
               /\ motorSpeeds' = r.out
               /\ currentPosition' = IF currentTask.type = "Stop" THEN currentPosition ELSE st.position
               /\ currentHeading' = IF currentTask.type = "Stop" THEN currentHeading ELSE st.rotation
    /\ UNCHANGED <<irqEnabled, pc, call>>

C17_SetNewTask_Begin_enables ==
    /\ pc = "idle"
    /\ pc' = "check"
    /\ returnCode' = "ok"
    /\ irqEnabled' = TRUE
    /\ UNCHANGED <<slot, tick, forceOverride, newTask, startState, temp>>

C3_SetNewTask_Begin_irqOn ==
    /\ pc = "idle"
    /\ pc' = "check"
    /\ returnCode' = "ok"
    /\ UNCHANGED <<slot, tick, irqEnabled, forceOverride, newTask, startState, temp>>

\* setNewTask, entry: returnCode = ReturnCode::ok; __disable_irq();
SetNewTask_Begin ==
    /\ pc = "idle"
    /\ pc' = "check"
    /\ returnCode' = "ok"
    /\ irqEnabled' = FALSE
    /\ UNCHANGED <<slot, tick, forceOverride, newTask, startState, temp>>

C2_MayReplace_always(finished, force) == TRUE

C4_MayReplace_inverted(finished, force) == ~finished \/ force

\* _currentTask->_finished || forceOverride  (lines 381, 409, 434, ...)
MayReplace(finished, force) == finished \/ force

\* if (_currentTask->_finished || forceOverride): || reads forceOverride only
\* when _finished is false
SetNewTask_Check(force) ==
    /\ pc = "check"
    /\ forceOverride' = IF currentTask.finished THEN forceOverride ELSE force
    /\ pc' = IF MayReplace(currentTask.finished, force) THEN "start" ELSE "exit"
    /\ UNCHANGED <<slot, tick, irqEnabled, newTask, startState, temp, returnCode>>

C24_ResolveStartState_given(stateType, st) == st

\* the start state the overload hands to startTask
ResolveStartState(stateType, st) ==
    IF stateType = "lastEndState" THEN currentTask.endState ELSE st

C1_Validated_always(code) == TRUE

\* returnCode == ReturnCode::ok  (lines 388, 414, 439, ...)
Validated(code) == code = "ok"

\* temp = newTask; returnCode = temp.startTask(...);
\* if (returnCode == ReturnCode::ok) new (&_taskCopies.x) X(temp): placement new
\* takes over the storage of the old object
SetNewTask_Start(candidate, stateType, st) ==
    /\ pc = "start"
    /\ InWorld(ResolveStartState(stateType, st).position)
    /\ LET r == startTask(candidate, ResolveStartState(stateType, st))
       IN /\ returnCode' = r.code
          /\ forwardVelPID' = IF r.resetPID THEN PID_reset(forwardVelPID) ELSE forwardVelPID
          /\ angularVelPID' = IF r.resetPID THEN PID_reset(angularVelPID) ELSE angularVelPID
          /\ IF Validated(r.code)
             THEN /\ temp' = r.task
                  /\ newTask' = candidate
                  /\ startState' = ResolveStartState(stateType, st)
                  /\ currentTask' = PartialTask
                  /\ pc' = "construct"
             ELSE /\ pc' = "exit"
                  /\ UNCHANGED <<temp, newTask, startState, currentTask>>
    /\ UNCHANGED <<tick, irqEnabled, forceOverride>>

C5_SetNewTask_Construct_unstarted ==
    /\ pc = "construct"
    /\ pc' = "exit"
    /\ currentTask' = newTask
    /\ UNCHANGED <<forwardVelPID, angularVelPID, tick, irqEnabled, call>>

C22_SetNewTask_Construct_default ==
    /\ pc = "construct"
    /\ pc' = "exit"
    /\ currentTask' = Stop
    /\ UNCHANGED <<forwardVelPID, angularVelPID, tick, irqEnabled, call>>

\* ... the copy constructor completes; _currentTask = the new object
SetNewTask_Construct ==
    /\ pc = "construct"
    /\ pc' = "exit"
    /\ currentTask' = temp
    /\ UNCHANGED <<forwardVelPID, angularVelPID, tick, irqEnabled, call>>

C31_SetNewTask_Exit_leavesDisabled ==
    /\ pc = "exit"
    /\ pc' = "idle"
    /\ returnCode' = "ok"
    /\ forceOverride' = FALSE
    /\ newTask' = NoTask
    /\ startState' = ZeroRobotState
    /\ temp' = NoTask
    /\ UNCHANGED <<slot, tick, irqEnabled>>

\* __enable_irq(); return returnCode;  (the call's locals are dead from here on)
SetNewTask_Exit ==
    /\ pc = "exit"
    /\ pc' = "idle"
    /\ irqEnabled' = TRUE
    /\ returnCode' = "ok"
    /\ forceOverride' = FALSE
    /\ newTask' = NoTask
    /\ startState' = ZeroRobotState
    /\ temp' = NoTask
    /\ UNCHANGED <<slot, tick>>

Next ==
    \/ \E st \in RobotStates, freq \in Freqs, ub \in UBInt16 : updateSpeeds(st, freq, ub)
    \/ SetNewTask_Begin
    \/ \E force \in BOOLEAN : SetNewTask_Check(force)
    \/ \E candidate \in Candidates, stateType \in StateTypes :
          \E st \in StartStates(stateType) : SetNewTask_Start(candidate, stateType, st)
    \/ SetNewTask_Construct
    \/ SetNewTask_Exit

Spec == Init /\ [][Next]_vars

-----------------------------------------------------------------------------
\* Properties of the task slot

\* a step of the tick: setNewTask moves pc in every one of its steps
TickStep == pc' = pc

\* a and b are the same maneuver instance, possibly with the flag raised
SameInstance(a, b) ==
    /\ a # PartialTask
    /\ b # PartialTask
    /\ [a EXCEPT !.finished = b.finished] = b

\* C1: a setNewTask call whose candidate is rejected by startTask returns the
\* error code and changes neither the active maneuver nor either controller.
C1_RejectedCallChangesNothing ==
    [][ /\ (pc \in {"idle", "check"} /\ ~TickStep) => UNCHANGED slot
        /\ (pc = "start" /\ returnCode' = "error") => (pc' = "exit" /\ UNCHANGED slot)
        /\ (pc = "exit" /\ returnCode = "error") => UNCHANGED slot ]_vars

C1_Witness ==
    /\ pc = "exit"
    /\ returnCode = "error"
    /\ currentTask.type = "Accelerate"
    /\ forwardVelPID # PIDZero

\* C2: a call made while the active maneuver is unfinished and without
\* forceOverride returns ok, never runs startTask and changes nothing.
C2_UnfinishedUnforcedIsNoOp ==
    [][ /\ (pc = "check" /\ ~currentTask.finished /\ ~forceOverride')
            => (pc' = "exit" /\ returnCode' = "ok" /\ UNCHANGED <<slot, temp, newTask>>)
        /\ (pc = "exit" /\ newTask = NoTask /\ returnCode = "ok") => UNCHANGED slot ]_vars

C2_Witness ==
    /\ pc = "exit"
    /\ returnCode = "ok"
    /\ newTask = NoTask
    /\ currentTask.type = "DriveStraight"
    /\ ~currentTask.finished
    /\ forwardVelPID # PIDZero

\* C3: the tick never runs while the slot is between the old maneuver and the
\* new one: every tick finds and leaves a complete maneuver.
C3_TickSeesCompleteTask ==
    [][ TickStep => (currentTask # PartialTask /\ currentTask' # PartialTask) ]_vars

C3_Witness ==
    /\ currentTask = PartialTask
    /\ ~irqEnabled
    /\ motorSpeeds # WheelSpeeds(0, 0)

\* C4: the active maneuver is replaced only by a setNewTask call that found it
\* finished or was given forceOverride; every other step keeps the instance.
C4_ReplacedOnlyWhenFinishedOrForced ==
    [][ /\ (pc = "check" /\ pc' = "start") => (currentTask.finished \/ forceOverride')
        /\ (pc \notin {"start", "construct"}) => SameInstance(currentTask, currentTask')
        /\ (pc = "start" /\ currentTask' # currentTask) => pc' = "construct" ]_vars

C4_Witness ==
    /\ pc = "exit"
    /\ newTask # NoTask
    /\ ~forceOverride
    /\ currentTask.type = "Accelerate"

\* C5: when the active maneuver is finished or forceOverride is given, and
\* startTask accepts, the call returns ok and the slot holds the candidate
\* with the run state startTask computed from the start pose.
C5_AcceptedCandidateIsInstalled ==
    [][ /\ (pc = "check" /\ (currentTask.finished \/ forceOverride')) => pc' = "start"
        /\ (pc = "start" /\ returnCode' = "ok")
            => (pc' = "construct" /\ startTask(newTask', startState').code = "ok")
        /\ (pc = "construct")
            => /\ pc' = "exit"
               /\ returnCode' = "ok"
               /\ currentTask' = startTask(newTask, startState).task
        /\ (pc = "exit" /\ newTask # NoTask)
            => (returnCode = "ok" /\ UNCHANGED currentTask) ]_vars

C5_Witness ==
    /\ pc = "exit"
    /\ forceOverride
    /\ newTask # NoTask
    /\ currentTask.type = "DriveStraight"
    /\ currentTask.targetDir # <<0, 0>>

\* C6: right after a successful replacement, before any tick, isTaskFinished()
\* is false, also when the new maneuver is a Stop.
C6_FreshTaskIsUnfinished ==
    [][ /\ (pc = "construct") => ~isTaskFinished'
        /\ (pc = "exit") => (isTaskFinished' = isTaskFinished) ]_vars

C6_Witness ==
    /\ pc = "exit"
    /\ newTask = Stop
    /\ currentTask.type = "Stop"
    /\ currentTask.endState.position # <<0, 0>>
    /\ ~isTaskFinished

\* C7: once a maneuver's finished flag is true it stays true until the
\* maneuver is replaced, also when the robot falls back below the target.
C7_FinishedIsSticky ==
    [][ (currentTask # PartialTask /\ currentTask' # PartialTask /\ currentTask.finished)
            => currentTask'.finished ]_vars

C7_Witness ==
    /\ currentTask # PartialTask
    /\ currentTask.type = "Accelerate"
    /\ currentTask.finished
    /\ currentTask.distance # 0
    /\ Length(VecSub(currentPosition, currentTask.startPos)) < Abs(currentTask.distance)

\* C8: Stop.startTask returns ok for every start pose, and every tick of a
\* Stop commands {0,0} and leaves finished true, from the first tick on.
C8_StopAlwaysStartsAndHolds ==
    [][ /\ \A stateType \in StateTypes : \A st \in StartStates(stateType) :
              startTask(Stop, st).code = "ok"
        /\ (pc = "construct" /\ newTask = Stop) => returnCode = "ok"
        /\ (TickStep /\ currentTask # PartialTask /\ currentTask.type = "Stop")
            => (motorSpeeds' = WheelSpeeds(0, 0) /\ isTaskFinished') ]_vars

C8_Witness ==
    /\ currentTask.type = "Stop"
    /\ currentTask.finished
    /\ currentTask.endState.position # <<0, 0>>
    /\ motorSpeeds = WheelSpeeds(0, 0)

\* C10: after a tick an Accelerate is finished exactly if that tick or an
\* earlier tick of the same instance saw the straight-line distance from the
\* start position reach |d|; a fresh instance starts unfinished.
C10_AccelerateFinishedIffReached ==
    [][ /\ (TickStep /\ currentTask # PartialTask /\ currentTask.type = "Accelerate")
            => /\ SameInstance(currentTask, currentTask')
               /\ isTaskFinished' <=>
                    \/ isTaskFinished
                    \/ Length(VecSub(currentPosition', currentTask.startPos))
                          >= Abs(currentTask.distance)
        /\ (pc = "construct" /\ newTask.type = "Accelerate") => ~isTaskFinished'
        /\ (pc \in {"idle", "check", "exit"} /\ ~TickStep) => UNCHANGED currentTask ]_vars

C10_Witness ==
    /\ currentTask # PartialTask
    /\ currentTask.type = "Accelerate"
    /\ currentTask.distance < 0
    /\ currentTask.finished
    /\ Length(VecSub(currentPosition, currentTask.startPos)) >= Abs(currentTask.distance)

-----------------------------------------------------------------------------
\* startTask on its own: a candidate and a start pose are drawn, then
\* temp = newTask; returnCode = temp.startTask(startState) runs once

\* end speeds of the drawn candidates (whole units)
FnSpeeds == (-MaxFnSpeed)..MaxFnSpeed

\* forward velocities of the drawn start poses, in steps of one half
FnForwardVels == { k * (FP \div 2) : k \in (-2 * MaxFnSpeed)..(2 * MaxFnSpeed) }

FnCandidates ==
    { Accelerate(v, d) : v \in FnSpeeds, d \in Distances }
        \cup { DriveStraight(d) : d \in Distances } \cup {Stop}

FnStartStates ==
    { MkRobotState(fv, <<ToFloat(x), 0>>, h) :
        fv \in FnForwardVels, x \in 0..MaxPos, h \in Headings }

\* headings of the drawn start poses: the four quarter turns
FnHeadings == 0..3

\* the start poses startTask is applied to on its own
FnStartPoses ==
    { MkRobotState(fv, <<ToFloat(x), 0>>, h) :
        fv \in FnForwardVels, x \in 0..MaxPos, h \in FnHeadings }

InitStartTask ==
    /\ currentTask = Stop
    /\ forwardVelPID \in {PIDZero, [integral |-> 1, lastError |-> 1]}
    /\ angularVelPID = PIDZero
    /\ motorSpeeds = WheelSpeeds(0, 0)
    /\ currentPosition = <<0, 0>>
    /\ currentHeading = 0
    /\ irqEnabled = FALSE
    /\ pc = "fn"
    /\ forceOverride = FALSE
    /\ newTask \in FnCandidates
    /\ startState \in FnStartPoses
    /\ temp = NoTask
    /\ returnCode = "ok"

\* temp = newTask; returnCode = temp.startTask(startState);
Apply_startTask ==
    /\ pc = "fn"
    /\ pc' = "done"
    /\ LET r == startTask(newTask, startState)
       IN /\ returnCode' = r.code
          /\ temp' = r.task
          /\ forwardVelPID' = IF r.resetPID THEN PID_reset(forwardVelPID) ELSE forwardVelPID
          /\ angularVelPID' = IF r.resetPID THEN PID_reset(angularVelPID) ELSE angularVelPID
    /\ UNCHANGED <<currentTask, tick, irqEnabled, forceOverride, newTask, startState>>

NextStartTask == Apply_startTask

SpecStartTask == InitStartTask /\ [][NextStartTask]_vars

\* a, b and c are all >= 0 or all <= 0
ShareSign(a, b, c) ==
    \/ (a >= 0 /\ b >= 0 /\ c >= 0)
    \/ (a <= 0 /\ b <= 0 /\ c <= 0)

\* C9 as stated: Accelerate(v1, d).startTask returns ok exactly if the start
\* pose's forward velocity v0, v1 and d share sign and v1 differs from v0.
C9_Original ==
    (pc = "done" /\ newTask.type = "Accelerate")
        => (returnCode = "ok" <=>
                /\ ShareSign(startState.forwardVel, newTask.endSpeeds, newTask.distance)
                /\ ToFloat(newTask.endSpeeds) # startState.forwardVel)

\* C9, amended: Accelerate(v1, d).startTask returns ok exactly if v0, v1 and
\* d share sign and v1 differs from v0, where v0 is the start pose's forward
\* velocity truncated toward zero to a whole number (the int16 _startSpeeds).
C9_AcceptsIffTruncatedSpeedAgrees ==
    (pc = "done" /\ newTask.type = "Accelerate")
        => (returnCode = "ok" <=>
                /\ ShareSign(ToInt16(startState.forwardVel), newTask.endSpeeds, newTask.distance)
                /\ newTask.endSpeeds # ToInt16(startState.forwardVel))

C9_Witness ==
    /\ pc = "done"
    /\ newTask.type = "Accelerate"
    /\ returnCode = "ok"
    /\ startState.forwardVel = -(FP \div 2)
    /\ newTask.endSpeeds > 0
    /\ newTask.distance > 0

\* the end state the claim predicts: at start.position displaced by the
\* signed distance along the heading of start, heading kept, no turning,
\* forward velocity and both wheel speeds v
PredictedEndState(start, distance, v) ==
    [wheelSpeeds |-> [left |-> v, right |-> v],
     forwardVel |-> v,
     position |-> <<start.position[1] + distance * cosf(start.rotation),
                    start.position[2] + distance * sinf(start.rotation)>>,
     angularVel |-> 0,
     rotation |-> start.rotation]

\* C25 as stated: after a successful start the predicted end state of
\* Accelerate(v1, d) and of DriveStraight(d) is at the start position
\* displaced by d along the start heading, with the start heading, zero
\* angular velocity, and forward velocity and wheel speeds v1 for Accelerate
\* and the start pose's forward speed for DriveStraight.
C25_Original ==
    (pc = "done" /\ returnCode = "ok" /\ newTask.type \in {"Accelerate", "DriveStraight"})
        => temp.endState =
              PredictedEndState(startState, newTask.distance,
                  IF newTask.type = "Accelerate" THEN ToFloat(newTask.endSpeeds)
                  ELSE startState.forwardVel)

\* C25, amended: as stated, with the speed of a DriveStraight's end state
\* being the start pose's forward speed truncated toward zero to a whole
\* number (the int16 _speeds), for forward and for reverse travel alike.
C25_EndStateIsDisplacedStart ==
    (pc = "done" /\ returnCode = "ok" /\ newTask.type \in {"Accelerate", "DriveStraight"})
        => temp.endState =
              PredictedEndState(startState, newTask.distance,
                  IF newTask.type = "Accelerate" THEN ToFloat(newTask.endSpeeds)
                  ELSE ToFloat(ToInt16(startState.forwardVel)))

C25_Witness ==
    /\ pc = "done"
    /\ returnCode = "ok"
    /\ newTask.type = "DriveStraight"
    /\ newTask.distance < 0
    /\ startState.rotation = 1
    /\ startState.forwardVel = -(3 * (FP \div 2))
    /\ temp.endState.position[2] = newTask.distance
    /\ temp.endState.forwardVel = ToFloat(-1)

-----------------------------------------------------------------------------
\* Properties of the variants' start and tick, and of the shared controllers

\* the start poses a setNewTask call that passes its check can hand to
\* startTask (the check leaves the slot as it is)
StartPoses ==
    { ResolveStartState(stateType, st) :
        stateType \in StateTypes, st \in RobotStates \cup ExplicitStates }

\* C11 as stated: a DriveStraight(d) candidate whose start pose has a nonzero
\* forward speed of a sign different from sign(d) is rejected, and the
\* rejected call leaves the active maneuver unchanged.
C11_Original ==
    [][ /\ (pc = "check" /\ pc' = "start") =>
              \A d \in Distances : \A s \in StartPoses :
                  (s.forwardVel # 0 /\ sgn(s.forwardVel) # sgn(d))
                      => startTask(DriveStraight(d), s).code = "error"
        /\ (pc = "start" /\ returnCode' = "error") => UNCHANGED currentTask ]_vars

\* C11, amended: the forward speed is the start pose's forward velocity
\* truncated toward zero to a whole number (the int16 _speeds); a candidate
\* whose truncated speed is nonzero and of a sign different from sign(d) is
\* rejected, and the rejected call leaves the active maneuver unchanged.
C11_OpposedTruncatedSpeedIsRejected ==
    [][ /\ (pc = "check" /\ pc' = "start") =>
              \A d \in Distances : \A s \in StartPoses :
                  (ToInt16(s.forwardVel) # 0 /\ sgn(ToInt16(s.forwardVel)) # sgn(d))
                      => startTask(DriveStraight(d), s).code = "error"
        /\ (pc = "start" /\ returnCode' = "error") => UNCHANGED currentTask ]_vars

C11_Witness ==
    /\ pc = "exit"
    /\ returnCode = "error"
    /\ currentTask.type = "Accelerate"
    /\ ~currentTask.finished
    /\ forceOverride
    /\ currentTask.endState.forwardVel = ToFloat(1)
    /\ startTask(DriveStraight(ToFloat(-1)), currentTask.endState).code = "error"

\* C12: an active DriveStraight(d) becomes finished on the first tick whose
\* pose position is at least |d| away from the start position, and on no
\* earlier tick; a fresh instance starts unfinished.
C12_DriveStraightFinishedWhenReached ==
    [][ /\ (TickStep /\ currentTask # PartialTask /\ currentTask.type = "DriveStraight")
            => /\ SameInstance(currentTask, currentTask')
               /\ currentTask'.finished <=>
                    \/ currentTask.finished
                    \/ Length(VecSub(currentPosition', currentTask.startPos))
                          >= Abs(currentTask.distance)
        /\ (pc = "construct" /\ newTask.type = "DriveStraight") => ~currentTask'.finished ]_vars

C12_Witness ==
    /\ currentTask # PartialTask
    /\ currentTask.type = "DriveStraight"
    /\ currentTask.distance # 0
    /\ currentTask.finished
    /\ Length(VecSub(currentPosition, currentTask.startPos)) = Abs(currentTask.distance)

-----------------------------------------------------------------------------
\* Rotate::startTask on its own: a Rotate and a start pose are drawn, then
\* startTask runs once (Apply_startTask)

RotateCandidates ==
    { Rotate(w, a) : w \in FnSpeeds, a \in (-MaxAngle)..MaxAngle }

\* start poses with independent wheel speeds, in steps of one half
RotateStartStates ==
    { [MkRobotState(TruncDiv(l + r, 2), <<0, 0>>, h) EXCEPT
            !.wheelSpeeds = [left |-> l, right |-> r]] :
        l \in FnForwardVels, r \in FnForwardVels, h \in Headings }

InitRotateStart ==
    /\ currentTask = Stop
    /\ forwardVelPID \in {PIDZero, [integral |-> 1, lastError |-> 1]}
    /\ angularVelPID = PIDZero
    /\ motorSpeeds = WheelSpeeds(0, 0)
    /\ currentPosition = <<0, 0>>
    /\ currentHeading = 0
    /\ irqEnabled = FALSE
    /\ pc = "fn"
    /\ forceOverride = FALSE
    /\ newTask \in RotateCandidates
    /\ startState \in RotateStartStates
    /\ temp = NoTask
    /\ returnCode = "ok"

SpecRotateStart == InitRotateStart /\ [][NextStartTask]_vars

\* C13: Rotate(maxAngularVel, angle).startTask returns error when the left or
\* the right start wheel speed is below the minimum speed in magnitude, or
\* when the float quotient angle / maxAngularVel is negative (minus infinity
\* for a negative angle over 0 included), and ok in every other case.
C13_RotateStartRejectsSlowOrNegative ==
    (pc = "done" /\ newTask.type = "Rotate")
        => (returnCode = "error" <=>
                \/ Abs(startState.wheelSpeeds.left) < ToFloat(minSpeed)
                \/ Abs(startState.wheelSpeeds.right) < ToFloat(minSpeed)
                \/ newTask.angle * newTask.maxAngularVel < 0
                \/ (newTask.maxAngularVel = 0 /\ newTask.angle < 0))

C13_Witness ==
    /\ pc = "done"
    /\ newTask.type = "Rotate"
    /\ returnCode = "error"
    /\ Abs(startState.wheelSpeeds.left) >= ToFloat(minSpeed)
    /\ Abs(startState.wheelSpeeds.right) < ToFloat(minSpeed)
    /\ newTask.angle * newTask.maxAngularVel > 0

\* the variants the maneuver interface names
Variants == {"Accelerate", "DriveStraight", "Stop", "Rotate"}

\* C14 as stated: each of Accelerate, DriveStraight, Stop and Rotate can be
\* made the active maneuver by a setNewTask call whose start succeeds: a call
\* that has passed its check can go on to install a candidate of each variant.
C14_Original ==
    (pc = "start") =>
        \A variant \in Variants :
            ENABLED (Next /\ pc' = "construct" /\ newTask'.type = variant)

\* C15: every tick applies the active maneuver's updateSpeeds once and hands
\* its result to the motors: the step is one application of updateSpeeds to
\* the slot, and the commanded speeds are what it returned, for every
\* variant, finished or not.
C15_TickIsOneUpdateAndOneCommand ==
    [][ TickStep =>
          /\ currentTask # PartialTask
          /\ \E fv \in ForwardVels, freq \in Freqs :
               LET st == MkRobotState(fv, currentPosition', currentHeading')
                   r(ub) == Task_updateSpeeds(currentTask, forwardVelPID, angularVelPID, st, freq, ub)
                   r0 == r(CHOOSE ub \in UBInt16 : TRUE)
               IN /\ forwardVelPID' = r0.fwd
                  /\ angularVelPID' = r0.ang
                  /\ currentTask' = r0.task
                  /\ (motorSpeeds' = r0.out \/ \E ub \in UBInt16 : motorSpeeds' = r(ub).out) ]_vars

C15_Witness ==
    /\ currentTask # PartialTask
    /\ currentTask.type = "DriveStraight"
    /\ currentTask.finished
    /\ currentPosition # currentTask.startPos
    /\ motorSpeeds # WheelSpeeds(0, 0)
    /\ forwardVelPID # PIDZero

\* C16 as stated: when a setNewTask call has installed a new active maneuver,
\* the integral and the last error of both controllers are zero, whatever
\* ticks ran before.
C16_Original ==
    (pc = "exit" /\ newTask # NoTask)
        => (forwardVelPID = PIDZero /\ angularVelPID = PIDZero)

ZeroHold(t) ==
    \/ t.type = "Stop"
    \/ t.type = "Rotate"
    \/ (t.type = "Accelerate" /\ t.endSpeeds = 0)

\* C18 as stated: once an instance whose hold command is zero has finished,
\* every later tick until it is replaced commands {0,0}, whatever pose the
\* tick reads, also one below the target again.
C18_Original ==
    [][ (TickStep /\ currentTask # PartialTask /\ currentTask.finished /\ ZeroHold(currentTask))
            => motorSpeeds' = WheelSpeeds(0, 0) ]_vars

\* C19 as stated: no tick of an active Accelerate performs the pure-pursuit
\* curvature division with a zero denominator (goal point (0,0) in robot
\* coordinates), the first tick of an Accelerate started from forward speed
\* 0 with the robot still at its start position included.
C19_Original ==
    [][ (/\ TickStep
         /\ currentTask # PartialTask
         /\ currentTask.type = "Accelerate"
         /\ ~(/\ There(Length(VecSub(currentPosition', currentTask.startPos)), currentTask.distance)
              /\ currentTask.endSpeeds = 0))
            => ~CurvatureUndefined(Accelerate_goalPointRobot(currentTask,
                    MkRobotState(0, currentPosition', currentHeading'))) ]_vars

\* the tick of maneuver t at position pos gets to the curvature computation
\* (an Accelerate with end speed 0 returns before it once it is there)
ReachesCurvature(t, pos) ==
    \/ t.type = "DriveStraight"
    \/ /\ t.type = "Accelerate"
       /\ ~(There(Length(VecSub(pos, t.startPos)), t.distance) /\ t.endSpeeds = 0)

\* the goal point, in robot coordinates, of the tick of t that reads pose st
GoalPointOf(t, st) ==
    IF t.type = "Accelerate" THEN Accelerate_goalPointRobot(t, st)
    ELSE DriveStraight_goalPointRobot(t, st)

\* C21 as stated: on every tick of an Accelerate or a DriveStraight the
\* curvature that the desired angular velocity is computed from is a number of
\* magnitude at most the configured maximum curvature, whatever the goal
\* point in robot coordinates is.
C21_Original ==
    [][ (/\ TickStep
         /\ currentTask # PartialTask
         /\ ReachesCurvature(currentTask, currentPosition'))
            => LET c == desCurvature(GoalPointOf(currentTask,
                            MkRobotState(0, currentPosition', currentHeading')))
               IN ~c.nan /\ Abs(c.value) <= maxCurvature ]_vars

\* C28: initially the active maneuver is a never-started Stop whose _finished
\* flag is false, so isTaskFinished() is false; while the slot holds it
\* unticked, a setNewTask call without forceOverride returns ok and installs
\* nothing; its first tick sets the flag, and from then on the same call runs
\* the candidate's startTask and installs the candidate when that succeeds.
C28_InitialStopBlocksUntilFirstTick ==
    /\ (currentTask = Stop /\ ~isTaskFinished)
    /\ [][ /\ (pc = "check" /\ currentTask = Stop /\ ~forceOverride')
                => (pc' = "exit" /\ returnCode' = "ok" /\ UNCHANGED <<slot, newTask, temp>>)
           /\ (pc = "exit" /\ currentTask = Stop /\ ~forceOverride /\ newTask = NoTask)
                => (returnCode = "ok" /\ UNCHANGED slot)
           /\ (TickStep /\ currentTask = Stop) => isTaskFinished'
           /\ (pc = "check" /\ currentTask.type = "Stop" /\ isTaskFinished) => pc' = "start"
           /\ (pc = "start" /\ returnCode' = "ok") => pc' = "construct"
           /\ (pc = "construct") => (returnCode = "ok" /\ currentTask' = temp) ]_vars

C28_Witness ==
    /\ pc = "exit"
    /\ currentTask = Stop
    /\ ~isTaskFinished
    /\ ~forceOverride
    /\ newTask = NoTask
    /\ returnCode = "ok"
    /\ motorSpeeds = WheelSpeeds(0, 0)

\* C29: an Accelerate whose startTask returned ok has startSpeed + endSpeed
\* nonzero where _totalTime is computed; on every tick on which the speed
\* profile is evaluated (the maneuver not finished) _totalTime and
\* startSpeed - endSpeed are both nonzero; an Accelerate with distance 0 is
\* finished by its first tick, before the profile is evaluated.
C29_ProfileNeverDividesByZero ==
    [][ /\ (pc = "start" /\ returnCode' = "ok" /\ newTask'.type = "Accelerate")
            => temp'.startSpeeds + temp'.endSpeeds # 0
        /\ (TickStep /\ currentTask # PartialTask /\ currentTask.type = "Accelerate")
            => /\ ~currentTask'.finished
                    => (currentTask.totalTime # 0
                            /\ currentTask.startSpeeds - currentTask.endSpeeds # 0)
               /\ (currentTask.distance = 0) => currentTask'.finished ]_vars

C29_Witness ==
    /\ pc = "idle"
    /\ currentTask.type = "Accelerate"
    /\ ~currentTask.finished
    /\ currentTask.startSpeeds # 0
    /\ currentTask.startSpeeds + currentTask.endSpeeds # 0
    /\ currentPosition = currentTask.startPos
    /\ motorSpeeds # WheelSpeeds(0, 0)
    /\ motorSpeeds.left = motorSpeeds.right

\* C30: a tick changes, of the active maneuver, only its _finished flag (and
\* the controllers): type, parameters, start position, target direction,
\* start speed, total time and predicted end state are the same after any
\* number of ticks, and no step but the swap of a successful call changes
\* them, so setNewTask<lastEndState> reads the same end pose whenever it is
\* called during the life of the instance.
C30_TickKeepsTheManeuver ==
    [][ /\ TickStep
            => /\ SameInstance(currentTask, currentTask')
               /\ currentTask'.endState = currentTask.endState
               /\ UNCHANGED <<irqEnabled, call>>
        /\ (pc \notin {"start", "construct"})
            => /\ currentTask' # PartialTask
               /\ ResolveStartState("lastEndState", ZeroRobotState)'
                    = ResolveStartState("lastEndState", ZeroRobotState) ]_vars

C30_Witness ==
    /\ pc = "idle"
    /\ currentTask.type = "DriveStraight"
    /\ currentTask.finished
    /\ currentPosition = currentTask.startPos
    /\ currentTask.endState.position # currentPosition
    /\ currentTask.endState.forwardVel # 0
    /\ forwardVelPID # PIDZero

\* C31: every setNewTask call disables the tick interrupt before it reads the
\* active maneuver's _finished flag and enables it again before it returns, on
\* the no-op path, the rejected path and the swap path alike: the interrupt is
\* never left disabled once the call has returned, and no tick runs between
\* the finished-check and the swap.
C31_CallBracketsItselfOnEveryPath ==
    /\ (pc = "idle" /\ irqEnabled = TRUE)
    /\ [][ /\ (pc = "idle" /\ ~TickStep) => (pc' = "check" /\ ~irqEnabled')
           /\ (pc = "check") => (~irqEnabled /\ pc' \in {"start", "exit"})
           /\ (pc = "start") => pc' \in {"construct", "exit"}
           /\ (pc = "construct") => pc' = "exit"
           /\ (pc = "exit") => pc' = "idle"
           /\ (pc' = "idle") => irqEnabled'
           /\ (pc' # "idle") => ~irqEnabled'
           /\ (pc # "idle") => ~TickStep ]_vars

C31_Witness ==
    /\ pc = "idle"
    /\ irqEnabled
    /\ currentTask.type = "Accelerate"
    /\ ~currentTask.finished
    /\ currentTask.endSpeeds # 0
    /\ motorSpeeds = WheelSpeeds(0, 0)

\* a maneuver that was started and predicts standstill at its end: a Stop
\* whose end state is not the default one any more, or an Accelerate to 0
StartedToRest(t) ==
    \/ (t.type = "Stop" /\ t.endState # ZeroRobotState)
    \/ (t.type = "Accelerate" /\ t.endSpeeds = 0)

\* from the end state of the active maneuver, startTask rejects every
\* DriveStraight of nonzero distance and accepts every Accelerate whose
\* nonzero end speed and distance share sign
RestEndStateOutcomes ==
    LET pose == ResolveStartState("lastEndState", ZeroRobotState)
    IN /\ pose.forwardVel = 0
       /\ \A candidate \in Candidates :
            /\ (candidate.type = "DriveStraight" /\ candidate.distance # 0)
                  => startTask(candidate, pose).code = "error"
            /\ (/\ candidate.type = "Accelerate"
                /\ candidate.endSpeeds # 0
                /\ sgn(candidate.distance) = sgn(candidate.endSpeeds))
                  => startTask(candidate, pose).code = "ok"

\* C32 as stated: while the active maneuver is a started Stop or an
\* Accelerate with end speed 0, a setNewTask<lastEndState> call with a
\* DriveStraight of nonzero distance always returns error, and one with an
\* Accelerate whose nonzero end speed and distance share sign is accepted.
C32_Original ==
    [][ /\ (pc = "check" /\ StartedToRest(currentTask))
            => (pc' = "start" /\ RestEndStateOutcomes)
        /\ (pc = "start" /\ returnCode' = "error") => (pc' = "exit" /\ UNCHANGED currentTask)
        /\ (pc = "start" /\ returnCode' = "ok") => pc' = "construct" ]_vars

\* C32, amended: the same for a call that finds the active maneuver finished
\* or is given forceOverride; a call without forceOverride made while that
\* maneuver is unfinished returns ok without running startTask, whatever its
\* candidate.
C32_RestEndStateRejectsDriveStraight ==
    [][ /\ (pc = "check" /\ StartedToRest(currentTask))
            => IF currentTask.finished \/ forceOverride'
               THEN pc' = "start" /\ RestEndStateOutcomes
               ELSE pc' = "exit" /\ returnCode' = "ok" /\ UNCHANGED slot
        /\ (pc = "start" /\ returnCode' = "error") => (pc' = "exit" /\ UNCHANGED currentTask)
        /\ (pc = "start" /\ returnCode' = "ok") => pc' = "construct" ]_vars

C32_Witness ==
    /\ pc = "exit"
    /\ returnCode = "error"
    /\ currentTask.type = "Stop"
    /\ currentTask.endState.position # <<0, 0>>
    /\ currentTask.finished
    /\ ~forceOverride
    /\ startTask(DriveStraight(ToFloat(1)), currentTask.endState).code = "error"
    /\ startTask(Accelerate(1, ToFloat(1)), currentTask.endState).code = "ok"

\* the variants a setNewTask overload exists for
SlotVariants == {"Accelerate", "DriveStraight", "Stop"}

\* the history of the slot, step by step: the maneuver in it is replaced only
\* by the commit of a successful swap, which puts the validated candidate
\* there; every other step keeps the instance
SlotFollowsSwaps ==
    /\ (pc = "construct")
          => /\ currentTask' = temp
             /\ returnCode = "ok"
             /\ startTask(newTask, startState) = [code |-> "ok", task |-> temp,
                                                  resetPID |-> newTask.type = "Stop"]
    /\ (pc = "start" /\ pc' = "construct") => currentTask' = PartialTask
    /\ (pc # "construct" /\ pc' # "construct") => SameInstance(currentTask, currentTask')

\* C22 as stated: in every reachable state the slot holds exactly one fully
\* constructed variant, and it is the one installed by the most recent
\* successful swap (the initial Stop if none has happened).
C22_Original ==
    /\ currentTask = Stop
    /\ [][ /\ currentTask # PartialTask
           /\ currentTask.type \in SlotVariants
           /\ SlotFollowsSwaps ]_vars

\* C22, amended: in every state in which the tick can run or no commit is in
\* progress the slot holds exactly one fully constructed variant, the one
\* installed by the most recent successful swap (the initial Stop if none has
\* happened); only between the start and the end of the copy construction of
\* a validated candidate into the slot, with the tick interrupt disabled, the
\* slot holds no complete maneuver.
C22_OneCompleteManeuverOutsideCommit ==
    /\ currentTask = Stop
    /\ [][ /\ (pc # "construct" \/ irqEnabled)
                => (currentTask # PartialTask /\ currentTask.type \in SlotVariants)
           /\ (pc = "construct") => (currentTask = PartialTask /\ ~irqEnabled)
           /\ SlotFollowsSwaps ]_vars

C22_Witness ==
    /\ pc = "exit"
    /\ newTask.type = "DriveStraight"
    /\ currentTask = temp
    /\ currentTask.startPos # <<0, 0>>
    /\ forceOverride

-----------------------------------------------------------------------------
\* The tick on its own: the active maneuver is the never-started Stop or any
\* maneuver a setNewTask call can have installed, then the timer interrupt
\* runs updateSpeeds(freq) again and again

\* what the slot can hold between two calls
InstalledTasks ==
    {Stop} \cup
    { r.task : r \in { q \in { startTask(t, st) : t \in Candidates,
                                                  st \in RobotStates \cup ExplicitStates } :
                          q.code = "ok" } }

InitTick ==
    /\ currentTask \in InstalledTasks
    /\ forwardVelPID = PIDZero
    /\ angularVelPID = PIDZero
    /\ motorSpeeds = WheelSpeeds(0, 0)
    /\ currentPosition = <<0, 0>>
    /\ currentHeading = 0
    /\ irqEnabled = TRUE
    /\ pc = "idle"
    /\ forceOverride = FALSE
    /\ newTask = NoTask
    /\ startState = ZeroRobotState
    /\ temp = NoTask
    /\ returnCode = "ok"

NextTick ==
    \E st \in RobotStates, freq \in Freqs, ub \in UBInt16 : updateSpeeds(st, freq, ub)

SpecTick == InitTick /\ [][NextTick]_vars

-----------------------------------------------------------------------------
\* The tick of a DriveStraight: a DriveStraight started anywhere in the plane,
\* along any of the four axes, is drawn as the active maneuver, then the timer
\* interrupt runs updateSpeeds(freq) again and again on poses of the plane

\* poses of the plane the tick reads: both coordinates and all four headings
PlanePoses ==
    { MkRobotState(0, <<ToFloat(x), ToFloat(y)>>, h) :
        x \in (-MaxPos)..MaxPos, y \in (-MaxPos)..MaxPos, h \in FnHeadings }

\* start poses: at the origin, along any axis, standing or moving either way
StraightStartPoses ==
    { MkRobotState(ToFloat(v), <<0, 0>>, h) : v \in Speeds, h \in FnHeadings }

\* the DriveStraights startTask accepts, as it leaves them
StartedStraights ==
    { r.task : r \in { q \in { startTask(DriveStraight(d), st) :
                                  d \in Distances, st \in StraightStartPoses } :
                          q.code = "ok" } }

InitStraightTick ==
    /\ currentTask \in StartedStraights
    /\ forwardVelPID = PIDZero
    /\ angularVelPID = PIDZero
    /\ motorSpeeds = WheelSpeeds(0, 0)
    /\ currentPosition = currentTask.startPos
    /\ currentHeading = 0
    /\ irqEnabled = TRUE
    /\ pc = "idle"
    /\ forceOverride = FALSE
    /\ newTask = NoTask
    /\ startState = ZeroRobotState
    /\ temp = NoTask
    /\ returnCode = "ok"

NextStraightTick ==
    \E st \in PlanePoses, ub \in UBInt16 : updateSpeeds(st, 1, ub)

SpecStraightTick == InitStraightTick /\ [][NextStraightTick]_vars

\* C33: in every tick of an active DriveStraight the lookahead is at least the
\* configured minimum, which is positive; the goal point lies at distance
\* (driven distance + lookahead) from the start position while the robot lies
\* at distance (driven distance) from it, so the goal point in robot
\* coordinates is not (0, 0) and the curvature division has a nonzero
\* denominator, for every pose of the plane the tick reads.
C33_GoalPointNeverAtRobot ==
    [][ (TickStep /\ currentTask.type = "DriveStraight")
          => LET st == MkRobotState(0, currentPosition', currentHeading')
                 absDrivenDist == Length(VecSub(st.position, currentTask.startPos))
                 lookAheadDistance == DriveStraight_lookAhead(currentTask.speeds)
                 goalPointGlobal == DriveStraight_goalPointGlobal(currentTask, st)
                 goalPointRobot == DriveStraight_goalPointRobot(currentTask, st)
             IN /\ minLookAheadDist > 0
                /\ lookAheadDistance >= minLookAheadDist
                /\ Length(VecSub(goalPointGlobal, currentTask.startPos))
                      = absDrivenDist + lookAheadDistance
                /\ goalPointRobot # <<0, 0>>
                /\ ~CurvatureUndefined(goalPointRobot)
                /\ ~desCurvature(goalPointRobot).nan ]_vars

\* a tick of a standing DriveStraight of distance 0, read on a pose off the
\* path and turned away from it
C33_Witness ==
    /\ currentTask.type = "DriveStraight"
    /\ currentTask.speeds = 0
    /\ currentTask.finished
    /\ currentPosition[2] # currentTask.startPos[2]
    /\ currentPosition[1] # currentTask.startPos[1]
    /\ currentHeading = 3
    /\ currentTask.targetDir[1] = 0

-----------------------------------------------------------------------------
\* The tick of a Rotate: a started Rotate is drawn as the active maneuver, then
\* the timer interrupt runs updateSpeeds(freq) again and again

\* the Rotates startTask accepts, as it leaves them
StartedRotates ==
    { r.task : r \in { q \in { startTask(t, st) : t \in RotateCandidates, st \in RotateStartStates } :
                          q.code = "ok" } }

\* poses the sensor fusion reports while the robot turns on the spot
RotateTickStates ==
    { [MkRobotState(0, <<0, 0>>, h) EXCEPT !.angularVel = ToFloat(w)] :
        h \in (-MaxAngle)..MaxAngle, w \in FnSpeeds }

InitRotateTick ==
    /\ currentTask \in StartedRotates
    /\ forwardVelPID = PIDZero
    /\ angularVelPID = PIDZero
    /\ motorSpeeds = WheelSpeeds(0, 0)
    /\ currentPosition = <<0, 0>>
    /\ currentHeading = currentTask.startAngle
    /\ irqEnabled = TRUE
    /\ pc = "idle"
    /\ forceOverride = FALSE
    /\ newTask = NoTask
    /\ startState = ZeroRobotState
    /\ temp = NoTask
    /\ returnCode = "ok"

NextRotateTick ==
    \E st \in RotateTickStates, freq \in Freqs, ub \in UBInt16 : updateSpeeds(st, freq, ub)

SpecRotateTick == InitRotateTick /\ [][NextRotateTick]_vars

\* C23: a tick of an active Rotate(maxAngularVel, angle) sets _finished and
\* commands {0,0} exactly when the magnitude of (pose heading minus start
\* heading) is >= |angle|; a tick that reads a smaller magnitude leaves the
\* flag as it was and commands a nonzero speed, so a fresh instance stays
\* unfinished until the first tick that reads the target magnitude.
C23_RotateFinishesWhenTurned ==
    [][ (currentTask.type = "Rotate") =>
          /\ SameInstance(currentTask, currentTask')
          /\ IF Abs(currentHeading' - currentTask.startAngle) >= Abs(currentTask.angle)
             THEN currentTask'.finished /\ motorSpeeds' = WheelSpeeds(0, 0)
             ELSE /\ currentTask'.finished = currentTask.finished
                  /\ motorSpeeds' # WheelSpeeds(0, 0) ]_vars

C23_Witness ==
    /\ currentTask.type = "Rotate"
    /\ currentTask.angle > 0
    /\ currentTask.finished
    /\ currentHeading = currentTask.startAngle - currentTask.angle
    /\ motorSpeeds = WheelSpeeds(0, 0)

\* C26 as stated: on every tick of an Accelerate and of a DriveStraight the
\* lookahead distance the goal point is computed from has magnitude at least
\* the configured minimum lookahead distance, also when the desired speed is
\* 0, and the sign of the desired speed.
C26_Original ==
    [][ (/\ TickStep
         /\ currentTask # PartialTask
         /\ ReachesCurvature(currentTask, currentPosition'))
            => LET st == MkRobotState(0, currentPosition', currentHeading')
                   desiredSpeed == IF currentTask.type = "Accelerate"
                                   THEN Accelerate_desiredSpeedAt(currentTask, st)
                                   ELSE ToFloat(currentTask.speeds)
                   lookAheadDistance == IF currentTask.type = "Accelerate"
                                        THEN Accelerate_lookAhead(desiredSpeed)
                                        ELSE DriveStraight_lookAhead(currentTask.speeds)
               IN /\ Abs(lookAheadDistance) >= minLookAheadDist
                  /\ (desiredSpeed # 0) => sgn(lookAheadDistance) = sgn(desiredSpeed) ]_vars

\* C27 as stated: on every tick of an unfinished Rotate the commanded wheel
\* speeds satisfy left = -right and |right| >= the minimum speed, and a
\* command the correction raised to the minimum has the sign of the command
\* computed before it.
C27_Original ==
    [][ (currentTask.type = "Rotate" /\ ~currentTask'.finished) =>
          /\ motorSpeeds'.left = -motorSpeeds'.right
          /\ Abs(motorSpeeds'.right) >= minSpeed
          /\ \E st \in RotateTickStates, freq \in Freqs, ub \in UBInt16 :
                LET r == Rotate_output(currentTask, angularVelPID, st, freq, ub)
                IN /\ st.rotation = currentHeading'
                   /\ angularVelPID' = r.ang
                   /\ motorSpeeds' = Rotate_correctLowSpeed(r.out, currentTask.angle)
                   /\ (r.out.right # 0) => sgn(motorSpeeds'.right) = sgn(r.out.right) ]_vars

-----------------------------------------------------------------------------
\* The low-speed correction on its own (lines 151-152 / 247-248): a started
\* Accelerate or DriveStraight and a computed output are drawn, then both
\* wheels are corrected once

\* the maneuvers startTask accepts, as it leaves them
StartedTasks ==
    { r.task : r \in { q \in { startTask(t, st) : t \in FnCandidates, st \in FnStartStates } :
                          q.code = "ok" /\ q.task.type \in {"Accelerate", "DriveStraight"} } }

InitCorrect ==
    /\ currentTask \in StartedTasks
    /\ forwardVelPID = PIDZero
    /\ angularVelPID = PIDZero
    /\ motorSpeeds \in { WheelSpeeds(l, r) : l \in (-MaxCmd)..MaxCmd, r \in (-MaxCmd)..MaxCmd }
    /\ currentPosition = <<0, 0>>
    /\ currentHeading = 0
    /\ irqEnabled = FALSE
    /\ pc = "fn"
    /\ forceOverride = FALSE
    /\ newTask = NoTask
    /\ startState = ZeroRobotState
    /\ temp = NoTask
    /\ returnCode = "ok"

\* if (output.left < minSpeed && output.left > -minSpeed) output.left = ...;
\* the same for output.right
Apply_correctLowSpeed ==
    /\ pc = "fn"
    /\ pc' = "done"
    /\ motorSpeeds' = WheelSpeeds(CorrectLowSpeed(motorSpeeds.left, currentTask.distance),
                                  CorrectLowSpeed(motorSpeeds.right, currentTask.distance))
    /\ UNCHANGED <<slot, currentPosition, currentHeading, irqEnabled, call>>

NextCorrect == Apply_correctLowSpeed

SpecCorrect == InitCorrect /\ [][NextCorrect]_vars

\* v replaced as the claim says: kept at or above the minimum, else the
\* minimum magnitude with the sign of v
ClampedSignPreserving(v, w) ==
    IF Abs(v) >= minSpeed THEN w = v
    ELSE Abs(w) = minSpeed /\ (v # 0 => sgn(w) = sgn(v))

\* C20 as stated: a wheel command below the minimum speed in magnitude is
\* replaced by one of exactly the minimum magnitude and of the sign of the
\* computed command, so that both returned wheel commands have at least the
\* minimum magnitude.
C20_Original ==
    [][ (pc = "fn") =>
          /\ ClampedSignPreserving(motorSpeeds.left, motorSpeeds'.left)
          /\ ClampedSignPreserving(motorSpeeds.right, motorSpeeds'.right) ]_vars

-----------------------------------------------------------------------------
\* The part of setNewTask that resolves the start pose and runs startTask, on
\* its own: an active maneuver is drawn, the call has passed its check, then
\* the rest of the call runs

\* maneuvers the slot can hold: what startTask accepted, ticked or not
ActiveTasks ==
    { [t EXCEPT !.finished = f] :
        t \in StartedTasks \cup { startTask(Stop, st).task : st \in FnStartStates },
        f \in BOOLEAN }

\* the call is past `if (_currentTask->_finished || forceOverride)`
InitStartPose ==
    /\ currentTask \in ActiveTasks
    /\ forwardVelPID = PIDZero
    /\ angularVelPID = PIDZero
    /\ motorSpeeds = WheelSpeeds(0, 0)
    /\ currentPosition = <<0, 0>>
    /\ currentHeading = 0
    /\ irqEnabled = FALSE
    /\ pc = "start"
    /\ forceOverride = ~currentTask.finished
    /\ newTask = NoTask
    /\ startState = ZeroRobotState
    /\ temp = NoTask
    /\ returnCode = "ok"

NextStartPose ==
    \/ \E candidate \in Candidates, stateType \in StateTypes :
          \E st \in StartStates(stateType) : SetNewTask_Start(candidate, stateType, st)
    \/ SetNewTask_Construct
    \/ SetNewTask_Exit

SpecStartPose == InitStartPose /\ [][NextStartPose]_vars

\* the overload stateType, called with candidate (and st, where it takes or
\* reads a pose), runs the candidate's startTask on pose: the call returns
\* what startTask(pose) returns and, when that is ok, goes on to install the
\* run state startTask computed from pose
StartRunsOn(candidate, stateType, st, pose) ==
    InWorld(pose.position) =>
        /\ ENABLED SetNewTask_Start(candidate, stateType, st)
        /\ ~ENABLED (/\ SetNewTask_Start(candidate, stateType, st)
                     /\ ~(/\ returnCode' = startTask(candidate, pose).code
                          /\ (returnCode' = "ok") =>
                                (/\ pc' = "construct"
                                 /\ startState' = pose
                                 /\ temp' = startTask(candidate, pose).task)))

\* C24: setNewTask<lastEndState> runs the candidate's startTask on the
\* _endState of the maneuver that is active when the call is made, read
\* before the slot is overwritten; setNewTask<currentState> runs it on the
\* current fused pose, and the explicit-pose overload on the caller's pose.
C24_StartPoseFollowsOverload ==
    (pc = "start") =>
        \A candidate \in Candidates :
            /\ \A st \in StartStates("lastEndState") :
                  StartRunsOn(candidate, "lastEndState", st, currentTask.endState)
            /\ \A st \in StartStates("currentState") :
                  StartRunsOn(candidate, "currentState", st, st)
            /\ \A st \in StartStates("explicit") :
                  StartRunsOn(candidate, "explicit", st, st)

C24_Witness ==
    /\ pc = "construct"
    /\ newTask.type = "DriveStraight"
    /\ startState.position # <<0, 0>>
    /\ startState.position # currentPosition
    /\ startState.forwardVel = ToFloat(MaxFnSpeed)
    /\ temp.startPos = startState.position
    /\ temp.speeds = ToInt16(startState.forwardVel)

====
